---------------------------- MODULE Spec2Model ----------------------------
(***************************************************************************)
(* A model of core/ai/data/stores/product_vector_store.py: the             *)
(* ProductVectorStore operations of one AsyncSession over the              *)
(* product_vector table; and of the components around it: the logger of    *)
(* operations/logging, ProductRepository.update_stock, the get_session     *)
(* dependency, CostTrackingCallback and Settings.                          *)
(*                                                                         *)
(* Conventions.                                                            *)
(*  - A Python str is a sequence of one-character strings, so that         *)
(*    str.lower() is computed, not assumed.                                *)
(*  - An optional value is a sequence: <<>> is None, <<x>> is x.           *)
(*  - An embedding is [dim, head]: a vector of dim coordinates whose       *)
(*    leading coordinates are head and whose other coordinates are 0.      *)
(*  - A distance (a float8 in the store) is a fixed-point number, in units *)
(*    of 1/Scale.                                                          *)
(*  - A call of an operation is one step: the operations of one session    *)
(*    are awaited one after the other.                                     *)
(***************************************************************************)
EXTENDS Integers, Sequences, FiniteSets, TLC

VARIABLES
    store,   \* the rows of table product_vector
    inTx,    \* the session holds a transaction that is begun and not ended
    last,    \* the last call: operation, arguments, outcome
    prev,    \* the call before last when that was a delete, else NoCall
    pager,   \* a caller that pages through get_all: the pages it has got
    logging, \* loguru's handlers, the SimpleLogger instances, get_logger's cache
    products, \* table products and the sessions ProductRepository works in
    dep,     \* the get_session generators of the requests, and the session registry
    cost,    \* a CostTrackingCallback and the responses on_llm_end was called with
    settings \* the last construction of Settings: its inputs and what it gave

vars == <<store, inTx, last, prev, pager, logging, products, dep, cost, settings>>

\* the variables of the vector store, and those of the other components
storeVars == <<store, inTx, last, prev, pager>>
others == <<logging, products, dep, cost, settings>>

-----------------------------------------------------------------------------
(* Bounds *)

MaxId == 2          \* row ids are 1..MaxId
MaxLimit == 2       \* limit arguments are 0..MaxLimit
Scale == 100        \* distances are counted in units of 1/Scale

(* Program constants *)

EMBEDDING_DIM == 768

-----------------------------------------------------------------------------
(* Python values *)

None == <<>>
Some(x) == <<x>>

UpperToLower ==
    ("A" :> "a") @@ ("C" :> "c") @@ ("E" :> "e") @@ ("H" :> "h") @@
    ("I" :> "i") @@ ("L" :> "l") @@ ("N" :> "n") @@ ("O" :> "o") @@
    ("R" :> "r") @@ ("S" :> "s") @@ ("T" :> "t")

\* str.lower()
lower(s) ==
    [i \in DOMAIN s |-> IF s[i] \in DOMAIN UpperToLower THEN UpperToLower[s[i]] ELSE s[i]]

Str_cosine == <<"c", "o", "s", "i", "n", "e">>
Str_l2 == <<"l", "2">>
Str_L2 == <<"L", "2">>
Str_euclidean == <<"e", "u", "c", "l", "i", "d", "e", "a", "n">>
Str_manhattan == <<"m", "a", "n", "h", "a", "t", "t", "a", "n">>

-----------------------------------------------------------------------------
(* The store's distance functions (pgvector), in fixed point *)

ISqrt(n) == CHOOSE r \in 0..n : r * r <= n /\ (r + 1) * (r + 1) > n

Dot(a, b) == a[1] * b[1] + a[2] * b[2]

Sign(x) == IF x < 0 THEN -1 ELSE 1

\* the leading coordinates of the stored and of the query embeddings
EmbeddingHeads == {<<1, 0>>, <<0, 1>>, <<2, 0>>}
QueryHeads == {<<1, 0>>, <<1, 1>>}

\* 1 - cosine similarity
CosineDistance ==
    [a \in EmbeddingHeads, b \in QueryHeads |->
        Scale - Sign(Dot(a, b))
                * ISqrt((Scale * Scale * Dot(a, b) * Dot(a, b)) \div (Dot(a, a) * Dot(b, b)))]

\* the L2 norm of the difference
L2Distance ==
    [a \in EmbeddingHeads, b \in QueryHeads |->
        LET d == <<a[1] - b[1], a[2] - b[2]>> IN ISqrt(Scale * Scale * Dot(d, d))]

-----------------------------------------------------------------------------
(* Rows of product_vector.  The columns no operation reads (seller_id,     *)
(* content, chunk_index, category, created_at, updated_at) are left out.   *)

Vec(h) == [dim |-> EMBEDDING_DIM, head |-> h]

ProductIds == {1, 2}
Title_RedShoes == <<"R", "e", "d", " ", "S", "h", "o", "e", "s">>
Title_Hat == <<"h", "a", "t">>
Ids == 1..MaxId

ProductVector(id, product_id, title, embedding) ==
    [id |-> id, product_id |-> product_id, title |-> title, embedding |-> embedding]

\* every table content: at most one row per id (the primary key)
StoreContents(pids, titles, heads) ==
    UNION { { { ProductVector(i, f[i][1], f[i][2], Vec(f[i][3])) : i \in S }
              : f \in [S -> pids \X titles \X heads] }
            : S \in SUBSET Ids }

\* the mapped attributes of class ProductVector
MappedAttributes ==
    {"id", "product_id", "seller_id", "content", "chunk_index", "title",
     "category", "embedding", "created_at", "updated_at"}

-----------------------------------------------------------------------------
(* SQL: what the store computes for a SELECT                               *)

Min(a, b) == IF a <= b THEN a ELSE b

Distance(fn, row, q) ==
    IF fn = "cosine_distance"
    THEN CosineDistance[row.embedding.head, q.head]
    ELSE L2Distance[row.embedding.head, q.head]

RECURSIVE LikeMatch(_, _)
\* s LIKE p: % matches any run of characters, _ any one character
LikeMatch(p, s) ==
    IF p = <<>> THEN s = <<>>
    ELSE IF p[1] = "%" THEN LikeMatch(Tail(p), s) \/ (s # <<>> /\ LikeMatch(p, Tail(s)))
    ELSE /\ s # <<>>
         /\ (p[1] = "_" \/ p[1] = s[1])
         /\ LikeMatch(Tail(p), Tail(s))

\* s ILIKE p
ILike(s, p) == LikeMatch(lower(p), lower(s))

\* a WHERE criterion on one row
RowMatches(row, f) ==
    IF f.op = "ilike" THEN ILike(row.title, f.value)
    ELSE IF f.col = "product_id" THEN row.product_id = f.value
    ELSE row.id = f.value

\* the sequences that list every element of S once
Perms(S) ==
    { s \in [1..Cardinality(S) -> S] : \A i, j \in DOMAIN s : s[i] = s[j] => i = j }

\* The possible results of a SELECT of (row, distance) pairs: the rows that
\* meet every WHERE criterion, in an order the ORDER BY allows (any order
\* among equal keys, any order at all without ORDER BY), cut at LIMIT.
Execute(stmt, rows) ==
    LET dist(r) == Distance(stmt.fn, r, stmt.q)
        cands == { r \in rows :
                     /\ \A f \in stmt.where : RowMatches(r, f)
                     /\ stmt.max_distance # None => dist(r) <= stmt.max_distance[1] }
        orders == { s \in Perms(cands) :
                      stmt.order_by => \A i \in 1..(Len(s) - 1) : dist(s[i]) <= dist(s[i + 1]) }
        cut(s) == IF stmt.limit = None THEN s ELSE SubSeq(s, 1, Min(stmt.limit[1], Len(s)))
    IN  { [i \in DOMAIN cut(s) |-> <<s[i], dist(s[i])>>] : s \in orders }

-----------------------------------------------------------------------------
(* The session (sqlalchemy AsyncSession, autocommit off)                   *)

\* What a call did: the exception it raised ("none": it returned), the value
\* it returned, the statements it executed, whether it began a transaction,
\* and the session's transaction state and the table after it.
Outcome(err, ret, stmts, began, tx, rows) ==
    [err |-> err, ret |-> ret, stmts |-> stmts, began |-> began, tx |-> tx, rows |-> rows]

\* session.begin() on a session whose transaction is already begun
AlreadyBegun == Outcome("InvalidRequestError", None, 0, FALSE, TRUE, store)

NoCall ==
    [op |-> "none", args |-> <<>>, err |-> "none", ret |-> None, stmts |-> 0, began |-> FALSE,
     fault |-> "none"]

\* no caller is paging
NoPager == [limit |-> 0, pages |-> <<>>, totals |-> <<>>, done |-> TRUE]

IsDelete(c) == c.op \in {"delete_by_id", "delete_by_product_id"}

\* one call of an operation, as a step; fault is the failure the store
\* raised during the call ("none": the store worked)
Step(op, args, o, fault) ==
    /\ last' = [op |-> op, args |-> args, err |-> o.err, ret |-> o.ret,
                stmts |-> o.stmts, began |-> o.began, fault |-> fault]
    /\ prev' = IF IsDelete(last) THEN last ELSE NoCall
    /\ inTx' = o.tx
    /\ store' = o.rows
    /\ UNCHANGED others

\* a call during which the store works, by a caller that is not paging
Call(op, args, o) ==
    /\ Step(op, args, o, "none")
    /\ pager' = pager

-----------------------------------------------------------------------------
(* ProductVectorStore.similarity_search                                    *)

\* a variant of distance_func that compares the name as given
distance_func_CaseSensitive(distance_metric) ==
    IF distance_metric = Str_cosine THEN "cosine_distance"
    ELSE IF distance_metric = Str_l2 THEN "l2_distance"
    ELSE "ValueError"

\* lines 135-142 (and 178-185): the distance function a metric name selects
distance_func(distance_metric) ==
    IF lower(distance_metric) = Str_cosine THEN "cosine_distance"
    ELSE IF lower(distance_metric) = Str_l2 THEN "l2_distance"
    ELSE "ValueError"

\* a variant of SimilarityStmt without the ORDER BY
SimilarityStmt_Unordered(fn, query_embedding, limit, threshold) ==
    [fn |-> fn, q |-> query_embedding, where |-> {},
     max_distance |-> threshold, order_by |-> FALSE, limit |-> Some(limit)]

\* a variant of SimilarityStmt that drops the result of stmt.where(...)
SimilarityStmt_ThresholdDropped(fn, query_embedding, limit, threshold) ==
    [fn |-> fn, q |-> query_embedding, where |-> {},
     max_distance |-> None, order_by |-> TRUE, limit |-> Some(limit)]

\* lines 145-153: the statement
SimilarityStmt(fn, query_embedding, limit, threshold) ==
    [fn |-> fn, q |-> query_embedding, where |-> {},
     max_distance |-> threshold, order_by |-> TRUE, limit |-> Some(limit)]

\* a variant of SimilaritySearchOutcomes that selects the distance function
\* inside the `async with session.begin()` block
SimilaritySearchOutcomes_BeginFirst(query_embedding, distance_metric, limit, threshold) ==
    LET fn == distance_func(distance_metric) IN
    IF inTx THEN {AlreadyBegun}
    ELSE IF fn = "ValueError" THEN {Outcome("ValueError", None, 0, TRUE, FALSE, store)}
    ELSE { Outcome("none", res, 1, TRUE, FALSE, store)
           : res \in Execute(SimilarityStmt(fn, query_embedding, limit, threshold), store) }

\* lines 133-155
SimilaritySearchOutcomes(query_embedding, distance_metric, limit, threshold) ==
    LET fn == distance_func(distance_metric) IN
    IF fn = "ValueError" THEN {Outcome("ValueError", None, 0, FALSE, inTx, store)}
    ELSE IF inTx THEN {AlreadyBegun}
    ELSE { Outcome("none", res, 1, TRUE, FALSE, store)
           : res \in Execute(SimilarityStmt(fn, query_embedding, limit, threshold), store) }

similarity_search(query_embedding, distance_metric, limit, threshold) ==
    \E o \in SimilaritySearchOutcomes(query_embedding, distance_metric, limit, threshold) :
        Call("similarity_search",
             [query_embedding |-> query_embedding, distance_metric |-> distance_metric,
              limit |-> limit, threshold |-> threshold], o)

-----------------------------------------------------------------------------
(* ProductVectorStore.hybrid_search                                        *)

\* a variant of HybridFilters in which a key it does not know adds a
\* criterion that no row meets
HybridFilters_UnknownKeyMatchesNothing(filter_conditions) ==
    IF filter_conditions = None \/ DOMAIN filter_conditions[1] = {} THEN {}
    ELSE LET d == filter_conditions[1] IN
         { [col |-> "title", op |-> "ilike", value |-> <<"%">> \o d[k] \o <<"%">>]
           : k \in { x \in DOMAIN d : x = "title_contains" /\ d[x] # <<>> } }
         \cup { [col |-> "product_id", op |-> "eq", value |-> d[k]]
                : k \in { x \in DOMAIN d : x = "product_id" /\ d[x] # 0 } }
         \cup { [col |-> "id", op |-> "eq", value |-> d[k]]
                : k \in { x \in DOMAIN d : x = "id" /\ d[x] # 0 } }
         \cup { [col |-> "id", op |-> "eq", value |-> 0]
                : k \in DOMAIN d \ {"title_contains", "product_id", "id"} }

\* lines 195-207: the criteria a filter mapping adds.  `value` is tested for
\* truth: an empty str and the int 0 are false.
HybridFilters(filter_conditions) ==
    IF filter_conditions = None \/ DOMAIN filter_conditions[1] = {} THEN {}
    ELSE LET d == filter_conditions[1] IN
         { [col |-> "title", op |-> "ilike", value |-> <<"%">> \o d[k] \o <<"%">>]
           : k \in { x \in DOMAIN d : x = "title_contains" /\ d[x] # <<>> } }
         \cup { [col |-> "product_id", op |-> "eq", value |-> d[k]]
                : k \in { x \in DOMAIN d : x = "product_id" /\ d[x] # 0 } }
         \cup { [col |-> "id", op |-> "eq", value |-> d[k]]
                : k \in { x \in DOMAIN d : x = "id" /\ d[x] # 0 } }

\* a variant of HybridStmt without the LIMIT
HybridStmt_Unlimited(fn, query_embedding, filter_conditions, limit) ==
    [fn |-> fn, q |-> query_embedding, where |-> HybridFilters(filter_conditions),
     max_distance |-> None, order_by |-> TRUE, limit |-> None]

\* lines 189-210: the statement
HybridStmt(fn, query_embedding, filter_conditions, limit) ==
    [fn |-> fn, q |-> query_embedding, where |-> HybridFilters(filter_conditions),
     max_distance |-> None, order_by |-> TRUE, limit |-> Some(limit)]

\* session.execute outside session.begin(): the session begins a transaction
\* by itself when it has none, and the call leaves it begun.
HybridSearchOutcomes(query_embedding, filter_conditions, distance_metric, limit) ==
    LET fn == distance_func(distance_metric) IN
    IF fn = "ValueError" THEN {Outcome("ValueError", None, 0, FALSE, inTx, store)}
    ELSE { Outcome("none", res, 1, ~inTx, TRUE, store)
           : res \in Execute(HybridStmt(fn, query_embedding, filter_conditions, limit), store) }

hybrid_search(query_embedding, filter_conditions, distance_metric, limit) ==
    \E o \in HybridSearchOutcomes(query_embedding, filter_conditions, distance_metric, limit) :
        Call("hybrid_search",
             [query_embedding |-> query_embedding, filter_conditions |-> filter_conditions,
              distance_metric |-> distance_metric, limit |-> limit], o)

-----------------------------------------------------------------------------
(* ProductVectorStore.delete_by_id, delete_by_product_id                   *)

\* a variant of DeleteByIdOutcome that returns rowcount >= 0
DeleteByIdOutcome_AlwaysTrue(id) ==
    LET matched == { r \in store : r.id = id } IN
    Outcome("none", Cardinality(matched) >= 0, 1, ~inTx, FALSE, store \ matched)

\* a variant of DeleteByIdOutcome without the commit
DeleteByIdOutcome_NoCommit(id) ==
    LET matched == { r \in store : r.id = id } IN
    Outcome("none", Cardinality(matched) > 0, 1, ~inTx, TRUE, store \ matched)

\* lines 224-227: execute, commit, rowcount > 0
DeleteByIdOutcome(id) ==
    LET matched == { r \in store : r.id = id } IN
    Outcome("none", Cardinality(matched) > 0, 1, ~inTx, FALSE, store \ matched)

delete_by_id(id) ==
    Call("delete_by_id", [id |-> id], DeleteByIdOutcome(id))

\* a variant of DeleteByProductIdOutcome whose criterion is on the id column
DeleteByProductIdOutcome_ById(product_id) ==
    LET matched == { r \in store : r.id = product_id } IN
    Outcome("none", Cardinality(matched) > 0, 1, ~inTx, FALSE, store \ matched)

\* lines 238-241: execute, commit, rowcount > 0
DeleteByProductIdOutcome(product_id) ==
    LET matched == { r \in store : r.product_id = product_id } IN
    Outcome("none", Cardinality(matched) > 0, 1, ~inTx, FALSE, store \ matched)

delete_by_product_id(product_id) ==
    Call("delete_by_product_id", [product_id |-> product_id], DeleteByProductIdOutcome(product_id))

-----------------------------------------------------------------------------
(* ProductVectorStore.create                                               *)

\* lines 41-46: the keyword arguments given to the ProductVector constructor
CreateKwargs == {"product_id", "title", "description", "embedding"}

\* the NOT NULL columns with neither a default nor a server default
RequiredColumns == {"product_id", "seller_id", "content", "title", "category", "embedding"}

\* The declarative constructor refuses a keyword that is no mapped
\* attribute.  Otherwise the INSERT is flushed when the `async with
\* session.begin()` block is left: the Vector(768) column refuses another
\* dimension, the table refuses a NULL in a required column, both roll back.
CreateOutcome(product_id, title, description, embedding) ==
    IF ~(CreateKwargs \subseteq MappedAttributes)
    THEN Outcome("TypeError", None, 0, FALSE, inTx, store)
    ELSE IF inTx THEN AlreadyBegun
    ELSE IF embedding.dim # EMBEDDING_DIM
    THEN Outcome("StatementError", None, 0, TRUE, FALSE, store)
    ELSE IF ~(RequiredColumns \subseteq CreateKwargs)
    THEN Outcome("IntegrityError", None, 1, TRUE, FALSE, store)
    ELSE LET id == CHOOSE i \in 1..(MaxId + 1) : \A r \in store : r.id < i
             row == ProductVector(id, product_id, title, embedding)
         IN  Outcome("none", row, 1, TRUE, FALSE, store \cup {row})

create(product_id, title, description, embedding) ==
    Call("create",
         [product_id |-> product_id, title |-> title, description |-> description,
          embedding |-> embedding],
         CreateOutcome(product_id, title, description, embedding))

-----------------------------------------------------------------------------
(* ProductVectorStore.get_by_id, get_by_product_id, get_all                *)

\* lines 62-65
GetByIdOutcome(vector_id) ==
    IF inTx THEN AlreadyBegun
    ELSE LET found == { r \in store : r.id = vector_id } IN
         Outcome("none", IF found = {} THEN None ELSE Some(CHOOSE r \in found : TRUE),
                 1, TRUE, FALSE, store)

get_by_id(vector_id) ==
    Call("get_by_id", [vector_id |-> vector_id], GetByIdOutcome(vector_id))

\* Result.scalar_one_or_none(): None for no row, the row for one, and
\* MultipleResultsFound for more
scalar_one_or_none(rows) ==
    IF Cardinality(rows) = 0 THEN [err |-> "none", ret |-> None]
    ELSE IF Cardinality(rows) = 1 THEN [err |-> "none", ret |-> Some(CHOOSE r \in rows : TRUE)]
    ELSE [err |-> "MultipleResultsFound", ret |-> None]

\* lines 76-79
GetByProductIdOutcome(product_id) ==
    IF inTx THEN AlreadyBegun
    ELSE LET one == scalar_one_or_none({ r \in store : r.product_id = product_id }) IN
         Outcome(one.err, one.ret, 1, TRUE, FALSE, store)

get_by_product_id(product_id) ==
    Call("get_by_product_id", [product_id |-> product_id], GetByProductIdOutcome(product_id))

\* a variant of GetAllOutcomes whose total is the size of the page
GetAllOutcomes_PageSize(limit, offset) ==
    IF inTx THEN {AlreadyBegun}
    ELSE IF limit < 0 \/ offset < 0
    THEN {Outcome("DBAPIError", None, 2, TRUE, FALSE, store)}
    ELSE { Outcome("none",
                   <<SubSeq(s, offset + 1, Min(offset + limit, Len(s))),
                     Len(SubSeq(s, offset + 1, Min(offset + limit, Len(s))))>>,
                   2, TRUE, FALSE, store)
           : s \in Perms(store) }

\* lines 97-109: the count, then a page of a SELECT with no ORDER BY.  The
\* store refuses a negative LIMIT or OFFSET.
GetAllOutcomes(limit, offset) ==
    IF inTx THEN {AlreadyBegun}
    ELSE IF limit < 0 \/ offset < 0
    THEN {Outcome("DBAPIError", None, 2, TRUE, FALSE, store)}
    ELSE { Outcome("none",
                   <<SubSeq(s, offset + 1, Min(offset + limit, Len(s))), Cardinality(store)>>,
                   2, TRUE, FALSE, store)
           : s \in Perms(store) }

get_all(limit, offset) ==
    \E o \in GetAllOutcomes(limit, offset) :
        Call("get_all", [limit |-> limit, offset |-> offset], o)

-----------------------------------------------------------------------------
(* ProductVectorStore.count, get_embedding_dimensions                      *)

\* lines 247-249
CountOutcome == Outcome("none", Cardinality(store), 1, ~inTx, TRUE, store)

count == Call("count", <<>>, CountOutcome)

\* lines 259-265: one row of a SELECT with LIMIT 1 and no ORDER BY.  The
\* driver hands the embedding over as a list or as an array, and the truth
\* value of an array of several elements raises ValueError.
GetEmbeddingDimensionsOutcomes ==
    IF store = {} THEN {Outcome("none", None, 1, ~inTx, TRUE, store)}
    ELSE { Outcome("none", Some(r.embedding.dim), 1, ~inTx, TRUE, store) : r \in store }
         \cup {Outcome("ValueError", None, 1, ~inTx, TRUE, store)}

get_embedding_dimensions ==
    \E o \in GetEmbeddingDimensionsOutcomes : Call("get_embedding_dimensions", <<>>, o)

-----------------------------------------------------------------------------
(* operations/logging: SimpleLogger, get_logger, log_func                  *)
(*                                                                         *)
(* logging is a record:                                                    *)
(*   handlers   the handlers registered with loguru, by handler id         *)
(*   next_id    the id loguru gives to the next handler (ids are not       *)
(*              used again)                                                *)
(*   instances  the SimpleLogger instances, in order of construction; an   *)
(*              instance is known by its place in the sequence             *)
(*   cache      the lru_cache of get_logger: call pattern -> instance, 0   *)
(*              when the pattern is not cached                             *)
(*   call       the last call made                                         *)

MaxLoggers == 3     \* SimpleLogger instances constructed

Range(s) == { s[i] : i \in DOMAIN s }

\* log_dir arguments: None, or a directory
LogDirs == {None, Some("tmp1"), Some("tmp2")}

\* logger.py line 18: log_dir or Path("logs")
Dir(log_dir) == IF log_dir = None THEN "logs" ELSE log_dir[1]

\* The ways get_logger is called: with no argument, or with log_dir given by
\* position.  lru_cache keys an entry by the arguments as written in the
\* call, so get_logger() and get_logger(None) are two keys.
CallPatterns ==
    {[given |-> FALSE, log_dir |-> None]} \cup { [given |-> TRUE, log_dir |-> d] : d \in LogDirs }

\* __init__.py line 11: the key of a call in the lru_cache
CacheKey(pattern) == pattern

NoLogCall ==
    [op |-> "none", self |-> 0, ret |-> None, err |-> "none", held |-> <<>>,
     delivered |-> {}, trace |-> <<>>, func |-> None]

\* loguru as imported: its default handler, id 0, on stderr
LoguruImported ==
    [handlers |-> (0 :> [dir |-> "", sink |-> "stderr"]),
     next_id |-> 1,
     instances |-> <<>>,
     cache |-> [p \in CallPatterns |-> 0],
     call |-> NoLogCall]

\* logger.py lines 18-30, SimpleLogger.__init__: loguru_logger.remove()
\* removes every registered handler, then the console, file and error
\* handlers of the instance are added and their ids kept.
Constructed(L, log_dir) ==
    LET n == L.next_id
        d == Dir(log_dir)
    IN  [L EXCEPT !.handlers = (n :> [dir |-> d, sink |-> "console"])
                               @@ ((n + 1) :> [dir |-> d, sink |-> "app"])
                               @@ ((n + 2) :> [dir |-> d, sink |-> "error"]),
                  !.next_id = n + 3,
                  !.instances = Append(@, [log_dir |-> d, _handler_ids |-> <<n, n + 1, n + 2>>])]

\* __init__.py lines 11-22: the cached instance, or a new one that is cached
GotLogger(L, pattern) ==
    LET k == CacheKey(pattern) IN
    IF L.cache[k] # 0
    THEN [L EXCEPT !.call = [NoLogCall EXCEPT !.op = "get_logger", !.ret = Some(L.cache[k])]]
    ELSE LET C == Constructed(L, pattern.log_dir)
             i == Len(C.instances)
         IN  [C EXCEPT !.cache[k] = i,
                       !.call = [NoLogCall EXCEPT !.op = "get_logger", !.ret = Some(i)]]

\* __init__.py line 26: importing operations.logging makes the default
\* instance, get_logger()
LoggingImported ==
    [GotLogger(LoguruImported, [given |-> FALSE, log_dir |-> None]) EXCEPT !.call = NoLogCall]

LoggingFrame == UNCHANGED <<storeVars, products, dep, cost, settings>>

get_logger(pattern) ==
    /\ logging.cache[CacheKey(pattern)] = 0 => Len(logging.instances) < MaxLoggers
    /\ logging' = GotLogger(logging, pattern)
    /\ LoggingFrame

\* SimpleLogger(log_dir), as the tests construct it
SimpleLogger(log_dir) ==
    /\ Len(logging.instances) < MaxLoggers
    /\ logging' = [Constructed(logging, log_dir) EXCEPT
                      !.call = [NoLogCall EXCEPT !.op = "SimpleLogger",
                                                 !.self = Len(logging.instances) + 1]]
    /\ LoggingFrame

\* a variant of Closed that keeps the ids of the handlers it removed
Closed_KeepsIds(L, i) ==
    LET ids == L.instances[i]._handler_ids IN
    [L EXCEPT !.handlers = [h \in DOMAIN L.handlers \ Range(ids) |-> L.handlers[h]],
              !.call = [NoLogCall EXCEPT !.op = "close", !.self = i, !.held = ids]]

\* logger.py lines 130-151, SimpleLogger.close: nothing to do without ids;
\* otherwise the list is emptied and each id removed from loguru, the
\* ValueError of an id that is no longer registered being caught.
Closed(L, i) ==
    LET ids == L.instances[i]._handler_ids IN
    [L EXCEPT !.handlers = [h \in DOMAIN L.handlers \ Range(ids) |-> L.handlers[h]],
              !.instances[i]._handler_ids = <<>>,
              !.call = [NoLogCall EXCEPT !.op = "close", !.self = i, !.held = ids]]

close(i) ==
    /\ logging' = Closed(logging, i)
    /\ LoggingFrame

\* logger.py lines 157-159: leaving `with SimpleLogger(...) as logger`
exit_with(i) ==
    /\ logging' = [Closed(logging, i) EXCEPT !.call.op = "__exit__"]
    /\ LoggingFrame

\* test_logging.py line 140: somebody removes every handler from loguru
loguru_remove ==
    /\ logging' = [logging EXCEPT !.handlers = [h \in {} |-> 0],
                                  !.call = [NoLogCall EXCEPT !.op = "loguru_logger.remove"]]
    /\ LoggingFrame

\* instance.logger.info(message): logger is loguru's one logger (lines
\* 161-164); the message goes to every registered handler of level INFO or
\* below, here told by the directories of the app files written to
info(i) ==
    /\ logging' = [logging EXCEPT
                      !.call = [NoLogCall EXCEPT
                                   !.op = "info", !.self = i,
                                   !.delivered = { logging.handlers[h].dir :
                                                     h \in { x \in DOMAIN logging.handlers :
                                                               logging.handlers[x].sink = "app" } }]]
    /\ LoggingFrame

\* The functions log_func is put on: a plain function or a coroutine
\* function (as ProductVectorStore.create is), whose body returns a value or
\* raises an Exception or another BaseException.
Funcs ==
    { [kind |-> k, body |-> b] : k \in {"def", "async def"},
                                 b \in {"return", "ValueError", "KeyboardInterrupt"} }

ReturnValue == 30

\* logger.py lines 97-120, the wrapper, followed for a coroutine function by
\* the caller awaiting what it got.  The trace lists the entries logged
\* ("start", "done", "failed") and the run of the body ("run").  Calling a
\* coroutine function runs no part of its body: it returns the coroutine,
\* the try block ends normally, and the body runs when the caller awaits.
\* `except Exception` does not catch KeyboardInterrupt.
Wrapped(func) ==
    LET ret == IF func.body = "return" THEN Some(ReturnValue) ELSE None
        err == IF func.body = "return" THEN "none" ELSE func.body
        trace == IF func.kind = "async def" THEN <<"start", "done", "run">>
                 ELSE IF func.body = "return" THEN <<"start", "run", "done">>
                 ELSE IF func.body = "ValueError" THEN <<"start", "run", "failed">>
                 ELSE <<"start", "run">>
    IN  [NoLogCall EXCEPT !.op = "wrapper", !.func = Some(func),
                          !.ret = ret, !.err = err, !.trace = trace]

wrapper(func) ==
    /\ logging' = [logging EXCEPT !.call = Wrapped(func)]
    /\ LoggingFrame

-----------------------------------------------------------------------------
(* repositories/product_repo.py: ProductRepository.update_stock            *)
(*                                                                         *)
(* products is a record:                                                   *)
(*   rows      the committed rows of table products, by id: stock, status  *)
(*   sessions  for each session: where its update_stock call stands (pc),  *)
(*             the arguments and the product of the call, what it          *)
(*             returned, the Product object the session holds (identity),  *)
(*             and the row it has written and not committed (pending)      *)
(*   initial   the stock of product 1 at the start                         *)
(*   delta     the sum of the quantities of the calls that returned True,  *)
(*             added ones counted positive, reduced ones negative          *)
(*   calls     the update_stock calls made                                 *)

MaxStock == 3       \* stock is 0..MaxStock
MaxQuantity == 2    \* quantity arguments are -1..MaxQuantity
MaxCalls == 2       \* update_stock calls made

Sessions == {1, 2}
Statuses == {"draft", "active", "inactive", "out_of_stock"}
Quantities == -1..MaxQuantity
\* product 1 is in the table, product 2 is not
RepoProductIds == {1, 2}

NoSession ==
    [pc |-> "idle", args |-> <<>>, product |-> None, before |-> None, ret |-> None,
     identity |-> None, pending |-> None]

ProductsAt(stock, status) ==
    [rows |-> (1 :> [stock |-> stock, status |-> status]),
     sessions |-> [s \in Sessions |-> NoSession],
     initial |-> stock,
     delta |-> 0,
     calls |-> 0]

NoProducts == ProductsAt(0, "draft")

ProductsFrame == UNCHANGED <<storeVars, logging, dep, cost, settings>>

\* the row is locked for session s: another session has written it and not
\* committed, so an UPDATE of s waits
Locked(s) == \E t \in Sessions \ {s} : products.sessions[t].pending # None

\* the row as the statements of session s find it
RowSeen(s, product_id) ==
    IF products.sessions[s].pending # None THEN products.sessions[s].pending[1]
    ELSE products.rows[product_id]

\* lines 20-31, get_by_id: the Product of the row, None without a row.  A
\* Product the session holds already is returned as it is: the session was
\* made with expire_on_commit=False and the SELECT does not refresh it.
Loaded(s, product_id) ==
    IF product_id \notin DOMAIN products.rows THEN None
    ELSE IF products.sessions[s].identity # None THEN products.sessions[s].identity
    ELSE Some(RowSeen(s, product_id))

\* line 132: product = await self.get_by_id(product_id, include_relations=False)
update_stock_get(s, product_id, quantity, reduce) ==
    /\ products.sessions[s].pc = "idle"
    /\ products.calls < MaxCalls
    /\ LET p == Loaded(s, product_id) IN
       products' = [products EXCEPT
                       !.calls = @ + 1,
                       !.sessions[s] = [@ EXCEPT
                           !.pc = "got",
                           !.args = [product_id |-> product_id, quantity |-> quantity,
                                     reduce |-> reduce],
                           !.product = p,
                           !.before = p,
                           !.ret = None,
                           !.identity = IF p = None THEN @ ELSE p]]
    /\ ProductsFrame

\* line 136
new_stock(product, quantity, reduce) ==
    IF reduce THEN product.stock - quantity ELSE product.stock + quantity

\* a variant of new_status that leaves a product without stock as it is
new_status_Unchanged(product, stock) ==
    IF product.status = "out_of_stock" /\ stock > 0 THEN "draft"
    ELSE product.status

\* lines 143-146
new_status(product, stock) ==
    IF stock = 0 THEN "out_of_stock"
    ELSE IF product.status = "out_of_stock" /\ stock > 0 THEN "draft"
    ELSE product.status

\* a variant of Updated without the test of line 137
Updated_Unchecked(product, quantity, reduce) ==
    LET n == new_stock(product, quantity, reduce) IN
    Some([stock |-> n, status |-> new_status(product, n)])

\* lines 136-146: the product after the call, None when the call refuses
Updated(product, quantity, reduce) ==
    LET n == new_stock(product, quantity, reduce) IN
    IF n < 0 THEN None
    ELSE Some([stock |-> n, status |-> new_status(product, n)])

\* session.flush(): the UPDATE sets the columns whose value the call changed
Flushed(row, old, new) ==
    [stock |-> IF new.stock # old.stock THEN new.stock ELSE row.stock,
     status |-> IF new.status # old.status THEN new.status ELSE row.status]

\* lines 133-149: the rest of update_stock, from the product to the flush
update_stock_finish(s) ==
    LET se == products.sessions[s]
        a == se.args
    IN
    /\ se.pc = "got"
    /\ IF se.product = None
       THEN products' = [products EXCEPT !.sessions[s] = [@ EXCEPT !.pc = "idle",
                                                                   !.ret = Some(FALSE)]]
       ELSE LET u == Updated(se.product[1], a.quantity, a.reduce) IN
            IF u = None
            THEN products' = [products EXCEPT !.sessions[s] = [@ EXCEPT !.pc = "idle",
                                                                        !.ret = Some(FALSE)]]
            ELSE /\ u[1].stock <= MaxStock
                 /\ u[1] # se.product[1] => ~Locked(s)
                 /\ products' = [products EXCEPT
                        !.delta = @ + (IF a.reduce THEN -a.quantity ELSE a.quantity),
                        !.sessions[s] = [@ EXCEPT
                            !.pc = "idle",
                            !.ret = Some(TRUE),
                            !.product = u,
                            !.identity = u,
                            !.pending = IF u[1] = se.product[1] THEN @
                                        ELSE Some(Flushed(RowSeen(s, a.product_id),
                                                          se.product[1], u[1]))]]
    /\ ProductsFrame

\* lines 118-128, update_status: an UPDATE of the status column, which the
\* session also applies to the Product it holds
update_status(s, product_id, status) ==
    /\ products.sessions[s].pc = "idle"
    /\ IF product_id \notin DOMAIN products.rows
       THEN products' = [products EXCEPT !.sessions[s] = [@ EXCEPT !.ret = Some(FALSE),
                                                                   !.args = <<>>,
                                                                   !.product = None,
                                                                   !.before = None]]
       ELSE /\ ~Locked(s)
            /\ products' = [products EXCEPT
                   !.sessions[s] = [@ EXCEPT
                       !.ret = Some(TRUE),
                       !.args = <<>>,
                       !.product = None,
                       !.before = None,
                       !.pending = Some([RowSeen(s, product_id) EXCEPT !.status = status]),
                       !.identity = IF @ = None THEN None
                                    ELSE Some([@[1] EXCEPT !.status = status])]]
    /\ ProductsFrame

\* the caller commits (core/database/session.py line 11: autocommit=False);
\* the session keeps its objects (line 12: expire_on_commit=False)
commit(s) ==
    /\ products.sessions[s].pc = "idle"
    /\ products.sessions[s].pending # None
    /\ products' = [products EXCEPT !.rows[1] = products.sessions[s].pending[1],
                                    !.sessions[s].pending = None]
    /\ ProductsFrame

\* dependencies.py line 14, session.close(): what is not committed is rolled
\* back and the session forgets its objects
session_close(s) ==
    /\ products.sessions[s].pc = "idle"
    /\ products.sessions[s] # NoSession
    /\ products' = [products EXCEPT !.sessions[s] = NoSession]
    /\ ProductsFrame

-----------------------------------------------------------------------------
(* dependencies.py: get_session                                            *)
(*                                                                         *)
(* Each request runs in a task of its own and drives one get_session       *)
(* generator.  dep is a record:                                            *)
(*   requests  for each request: where its generator stands (pc), whether  *)
(*             the consumer of the session has begun a transaction (used), *)
(*             how the consumer ended (outcome), the session calls that    *)
(*             ran after the yield (trace), what the generator raised      *)
(*   registry  the tasks for which AsyncScopedSession holds a session      *)

MaxRequests == 3    \* requests, each in its own task

Requests == 1..MaxRequests

\* how the consumer of the yielded session ends: normally, by an Exception,
\* or by a BaseException that is no Exception (the task is cancelled)
ConsumerOutcomes == {"none", "ValueError", "CancelledError"}

NoRequest == [pc |-> "idle", used |-> FALSE, outcome |-> "none", trace |-> <<>>, raised |-> "none"]

NoDependency == [requests |-> [r \in Requests |-> NoRequest], registry |-> {}]

DependencyFrame == UNCHANGED <<storeVars, logging, products, cost, settings>>

\* lines 6-8: the session of the task, made and registered by the call of
\* AsyncScopedSession, is yielded
get_session(r) ==
    /\ dep.requests[r].pc = "idle"
    /\ dep' = [dep EXCEPT !.requests[r].pc = "yielded", !.registry = @ \cup {r}]
    /\ DependencyFrame

\* the consumer executes a statement on the session
consumer_executes(r) ==
    /\ dep.requests[r].pc = "yielded"
    /\ ~dep.requests[r].used
    /\ dep' = [dep EXCEPT !.requests[r].used = TRUE]
    /\ DependencyFrame

\* lines 9-15: the session calls that run when the consumer has ended with
\* outcome.  `except Exception` takes a ValueError and not a CancelledError.
\* AsyncScopedSession.remove is a coroutine function and line 15 does not
\* await it: the call makes a coroutine that never runs.
Teardown(outcome) ==
    (IF outcome = "ValueError" THEN <<"rollback">> ELSE <<>>) \o <<"close">>

\* the consumer ends and the generator runs to its end
consumer_ends(r, outcome) ==
    /\ dep.requests[r].pc = "yielded"
    /\ dep' = [dep EXCEPT !.requests[r] = [@ EXCEPT !.pc = "done",
                                                    !.outcome = outcome,
                                                    !.trace = Teardown(outcome),
                                                    !.raised = outcome]]
    /\ DependencyFrame

-----------------------------------------------------------------------------
(* operations/settings/config.py: Settings *)

(* Settings is a pydantic BaseSettings.  A field takes its value from the  *)
(* keyword arguments of the call, else from the environment file, else     *)
(* from its default.  A value that was given is validated: parsed to the   *)
(* type of the field, then handed to the field's validators.  A default is *)
(* taken as it is: no field of Settings sets validate_default, so the      *)
(* validators do not see it.  The fields are validated in the order of     *)
(* their declaration, environment before debug, and a validator reads the  *)
(* fields before its own in info.data.  The required fields of             *)
(* DatabaseSettings are taken as given and valid.                          *)

\* the names an instance of Settings answers to: the fields, properties and
\* methods of Settings and of its bases
SettingsAttributes ==
    { "main_db_host", "main_db_port", "main_db_user", "main_db_password", "main_db_name",
      "main_database_url",
      "session_db_host", "session_db_port", "session_db_user", "session_db_password",
      "session_db_name", "session_database_url",
      "project_name", "environment", "debug", "api_v1_str",
      "jwt_secret_key", "jwt_access_token_expires", "jwt_refresh_token_expires",
      "langsmith_tracing", "langsmith_api_key", "langsmith_project",
      "validate_debug_in_production", "model_config" }

\* the values of EnvironmentEnum
EnvironmentEnum == {"development", "staging", "production"}

\* what a call or an environment file may give for environment ("test" is
\* no member of EnvironmentEnum), and for debug
EnvironmentInputs == {None} \cup { Some(e) : e \in EnvironmentEnum \cup {"test"} }
DebugInputs == {None, Some("true"), Some("false"), Some("maybe")}

\* the keyword arguments of a call of Settings, and the environment file: a
\* bool is written as the string pydantic parses it from
SettingsInputs == [environment : EnvironmentInputs, debug : DebugInputs]

\* the value given for a field: the keyword argument before the file
Given(init, env_file, field) ==
    IF init[field] # None THEN init[field] ELSE env_file[field]

\* a str parsed to bool: None when it is no bool
ParseBool(s) ==
    IF s \in {"true", "1", "yes", "on"} THEN Some(TRUE)
    ELSE IF s \in {"false", "0", "no", "off"} THEN Some(FALSE)
    ELSE None

\* lines 87-97: the validator of debug, with the fields validated before it;
\* data is <<>> when environment was given and was not valid
validate_debug_in_production(v, data) ==
    IF data # None /\ data[1] = "production" /\ v THEN "ValueError" ELSE "ok"

\* lines 67-70: field environment.  [ok, value]
EnvironmentField(given) ==
    IF given = None THEN [ok |-> TRUE, value |-> Some("production")]
    ELSE IF given[1] \in EnvironmentEnum THEN [ok |-> TRUE, value |-> given]
    ELSE [ok |-> FALSE, value |-> None]

\* line 71 and the validator: field debug.  The default True is not validated.
DebugField(given, data) ==
    IF given = None THEN [ok |-> TRUE, value |-> Some(TRUE)]
    ELSE LET b == ParseBool(given[1])
         IN  IF b = None THEN [ok |-> FALSE, value |-> None]
             ELSE IF validate_debug_in_production(b[1], data) = "ValueError"
                  THEN [ok |-> FALSE, value |-> None]
                  ELSE [ok |-> TRUE, value |-> b]

\* Settings(**init) with the environment file env_file: the instance, or
\* a ValidationError
Constructed_Settings(init, env_file) ==
    LET e == EnvironmentField(Given(init, env_file, "environment"))
        d == DebugField(Given(init, env_file, "debug"), e.value)
    IN  IF e.ok /\ d.ok
        THEN [error |-> "none",
              instance |-> Some([environment |-> e.value[1], debug |-> d.value[1]])]
        ELSE [error |-> "ValidationError", instance |-> None]

NoInput == [environment |-> None, debug |-> None]

NoSettings == [init |-> NoInput, env_file |-> NoInput, constructed |-> FALSE,
               error |-> "none", instance |-> None]

SettingsFrame == UNCHANGED <<storeVars, logging, products, dep, cost>>

\* a call of Settings
Settings(init, env_file) ==
    /\ settings' = [init |-> init, env_file |-> env_file, constructed |-> TRUE,
                    error |-> Constructed_Settings(init, env_file).error,
                    instance |-> Constructed_Settings(init, env_file).instance]
    /\ SettingsFrame

-----------------------------------------------------------------------------
(* operations/cost_tracking.py: CostTrackingCallback *)

(* cost is a record:                                                       *)
(*   total_input_tokens, total_output_tokens, call_records                 *)
(*             the fields of the callback                                  *)
(*   responses the responses on_llm_end was called with, in order          *)
(*   error     the exception the last call of on_llm_end caught            *)
(*   raised    the exception the last call of on_llm_end raised            *)
(*   summary   what get_summary returned, when it was called last          *)
(* A response is [generation, message, usage_metadata]: generation is      *)
(* "none" when response.generations is empty, "Generation" for a           *)
(* generation without a message and "ChatGeneration" for one with a        *)
(* message; message is the class of the message, of which AIMessage has    *)
(* the attribute usage_metadata; usage_metadata is None or the dict.       *)

MaxLlmCalls == 3    \* calls of on_llm_end
MaxTokens == 2      \* the tokens of one call, input or output

Usages == [input_tokens : 0..MaxTokens, output_tokens : 0..MaxTokens]

Responses ==
    { [generation |-> "none", message |-> "none", usage_metadata |-> None],
      [generation |-> "Generation", message |-> "none", usage_metadata |-> None],
      [generation |-> "ChatGeneration", message |-> "HumanMessage", usage_metadata |-> None],
      [generation |-> "ChatGeneration", message |-> "AIMessage", usage_metadata |-> None] }
    \cup { [generation |-> "ChatGeneration", message |-> "AIMessage", usage_metadata |-> Some(u)] :
             u \in Usages }

\* lines 10-15
NoCost == [total_input_tokens |-> 0, total_output_tokens |-> 0, call_records |-> <<>>,
           responses |-> <<>>, error |-> "none", raised |-> "none", summary |-> None]

CostFrame == UNCHANGED <<storeVars, logging, products, dep, settings>>

\* lines 39-73, the body of the try: the exception it ends with, or "none"
\* and the record it adds.  None has no get (line 47); settings has no
\* get_pricing (line 52).
Parsed(response) ==
    IF response.generation = "none" THEN [error |-> "none", record |-> None]
    ELSE IF response.generation # "ChatGeneration" THEN [error |-> "none", record |-> None]
    ELSE IF response.message # "AIMessage" THEN [error |-> "none", record |-> None]
    ELSE IF response.usage_metadata = None THEN [error |-> "AttributeError", record |-> None]
    ELSE IF "get_pricing" \notin SettingsAttributes THEN [error |-> "AttributeError", record |-> None]
    ELSE LET tokens == response.usage_metadata[1]
         IN  [error |-> "none",
              record |-> Some([input_tokens |-> tokens.input_tokens,
                               output_tokens |-> tokens.output_tokens,
                               total_tokens |-> tokens.input_tokens + tokens.output_tokens])]

\* lines 32-79: on_llm_end(response).  `except Exception` takes what the body
\* raises, and prints it.
on_llm_end(response) ==
    /\ Len(cost.responses) < MaxLlmCalls
    /\ LET p == Parsed(response)
       IN  cost' = [cost EXCEPT
                      !.total_input_tokens =
                          IF p.record = None THEN @ ELSE @ + p.record[1].input_tokens,
                      !.total_output_tokens =
                          IF p.record = None THEN @ ELSE @ + p.record[1].output_tokens,
                      !.call_records = @ \o p.record,
                      !.responses = Append(@, response),
                      !.error = p.error,
                      !.raised = "none",
                      !.summary = None]
    /\ CostFrame

\* lines 81-89
Summary(C) ==
    [total_input_tokens |-> C.total_input_tokens,
     total_output_tokens |-> C.total_output_tokens,
     total_tokens |-> C.total_input_tokens + C.total_output_tokens,
     call_count |-> Len(C.call_records)]

get_summary ==
    /\ cost.summary = None
    /\ cost' = [cost EXCEPT !.summary = Some(Summary(cost))]
    /\ CostFrame

-----------------------------------------------------------------------------
(* Specifications *)

Description == <<"d">>
Metrics == {Str_cosine, Str_L2, Str_euclidean, Str_manhattan}
Limits == 0..MaxLimit
PageArgs == -1..MaxLimit
Thresholds == {None, Some(0), Some(Scale)}

\* The record operations of one session, on every table content whose rows
\* differ in id and product id.
Init ==
    /\ store \in StoreContents(ProductIds, {Title_RedShoes}, {<<1, 0>>})
    /\ inTx = FALSE
    /\ last = NoCall
    /\ prev = NoCall
    /\ pager = NoPager
    /\ logging = LoggingImported
    /\ products = NoProducts
    /\ dep = NoDependency
    /\ cost = NoCost
    /\ settings = NoSettings

Next ==
    \/ \E p \in ProductIds, d \in {EMBEDDING_DIM - 1, EMBEDDING_DIM, EMBEDDING_DIM + 1} :
           create(p, Title_RedShoes, Description, [dim |-> d, head |-> <<1, 0>>])
    \/ \E i \in Ids : get_by_id(i)
    \/ \E p \in ProductIds : get_by_product_id(p)
    \/ \E l \in PageArgs, o \in PageArgs : get_all(l, o)
    \/ \E i \in Ids : delete_by_id(i)
    \/ \E p \in ProductIds : delete_by_product_id(p)
    \/ count
    \/ get_embedding_dimensions

Spec == Init /\ [][Next]_vars

\* The searches of one session, on every table content whose rows differ in
\* id and embedding.
InitSearch ==
    /\ store \in StoreContents({1}, {Title_RedShoes}, EmbeddingHeads)
    /\ inTx = FALSE
    /\ last = NoCall
    /\ prev = NoCall
    /\ pager = NoPager
    /\ logging = LoggingImported
    /\ products = NoProducts
    /\ dep = NoDependency
    /\ cost = NoCost
    /\ settings = NoSettings

NextSearch ==
    \/ \E q \in QueryHeads, m \in Metrics, l \in Limits, t \in Thresholds :
           similarity_search(Vec(q), m, l, t)
    \/ \E q \in QueryHeads, f \in {None, Some("id" :> 1)}, m \in Metrics, l \in Limits :
           hybrid_search(Vec(q), f, m, l)

SpecSearch == InitSearch /\ [][NextSearch]_vars

\* The hybrid searches of one session, on every table content whose rows
\* differ in id, product id, title and embedding (a hat's embedding lies
\* across the query, a pair of shoes' on it or across it).
Str_shoes == <<"s", "h", "o", "e", "s">>
Str_h_t == <<"h", "_", "t">>
Str_x == <<"x">>

FilterMappings ==
    {None,
     Some(<<>>),
     Some("category" :> Str_x),
     Some("title_contains" :> Str_shoes),
     Some(("title_contains" :> Str_shoes) @@ ("category" :> Str_x)),
     Some("title_contains" :> Str_h_t),
     Some("product_id" :> 0),
     Some("product_id" :> 1),
     Some("id" :> 1),
     Some(("title_contains" :> Str_shoes) @@ ("product_id" :> 1))}

InitHybrid ==
    /\ store \in { s \in StoreContents(ProductIds, {Title_RedShoes, Title_Hat}, {<<1, 0>>, <<0, 1>>}) :
                     \A r \in s : r.title = Title_Hat => r.embedding.head = <<0, 1>> }
    /\ inTx = FALSE
    /\ last = NoCall
    /\ prev = NoCall
    /\ pager = NoPager
    /\ logging = LoggingImported
    /\ products = NoProducts
    /\ dep = NoDependency
    /\ cost = NoCost
    /\ settings = NoSettings

NextHybrid ==
    \E f \in FilterMappings, l \in 1..MaxLimit : hybrid_search(Vec(<<1, 0>>), f, Str_cosine, l)

SpecHybrid == InitHybrid /\ [][NextHybrid]_vars

\* A caller pages through get_all with a fixed limit, at offsets 0, limit,
\* 2 * limit, ..., until a page comes back empty; nobody writes meanwhile.
Paging(limit) == [limit |-> limit, pages |-> <<>>, totals |-> <<>>, done |-> FALSE]

NextPage ==
    /\ ~pager.done
    /\ LET args == [limit |-> pager.limit, offset |-> pager.limit * Len(pager.pages)] IN
       \E o \in GetAllOutcomes(args.limit, args.offset) :
           /\ Step("get_all", args, o, "none")
           /\ pager' = IF o.err # "none" THEN [pager EXCEPT !.done = TRUE]
                       ELSE [pager EXCEPT !.pages = Append(@, o.ret[1]),
                                          !.totals = Append(@, o.ret[2]),
                                          !.done = (o.ret[1] = <<>>)]

InitPaging ==
    /\ store \in StoreContents(ProductIds, {Title_RedShoes, Title_Hat}, {<<1, 0>>})
    /\ inTx = FALSE
    /\ last = NoCall
    /\ prev = NoCall
    /\ pager \in { Paging(l) : l \in 1..MaxLimit }
    /\ logging = LoggingImported
    /\ products = NoProducts
    /\ dep = NoDependency
    /\ cost = NoCost
    /\ settings = NoSettings

NextPaging == NextPage

SpecPaging == InitPaging /\ [][NextPaging]_vars

-----------------------------------------------------------------------------
(* Failures of the store during a call                                    *)

\* what the store raises on execute or commit: lost connectivity, a timeout
ReadFaults == {"OperationalError", "TimeoutError"}
\* and, for a DELETE, a constraint of the schema
DeleteFaults == ReadFaults \cup {"IntegrityError"}

\* the statements an operation sends when the store works
StatementsOf(op) == IF op = "get_all" THEN 2 ELSE 1

\* A call with stmts statements sent, the last of which the store failed.
\* No method has a try or an except: the failure leaves the method as raised.
\* `async with self.session.begin()` rolls back and raises it again.
BlockFails(f, stmts) == Outcome(f, None, stmts, TRUE, FALSE, store)

\* session.execute outside a begin block: the transaction the session began
\* stays begun
ExecuteFails(f) == Outcome(f, None, 1, ~inTx, TRUE, store)

\* a variant of DeleteFails that catches the failure and returns False
DeleteFails_Swallowed(f) ==
    {Outcome("none", FALSE, 1, ~inTx, TRUE, store), Outcome("none", FALSE, 1, ~inTx, FALSE, store)}

\* lines 225-226, 239-240: the failure is raised by execute, or by commit
DeleteFails(f) ==
    {Outcome(f, None, 1, ~inTx, TRUE, store), Outcome(f, None, 1, ~inTx, FALSE, store)}

\* a call during which the store raises f
Raising(op, args, o, f) ==
    /\ Step(op, args, o, f)
    /\ pager' = pager

\* the operations that open `async with self.session.begin()`: the store is
\* reached only when no transaction was begun before
get_by_id_fails(vector_id, f) ==
    /\ ~inTx
    /\ Raising("get_by_id", [vector_id |-> vector_id], BlockFails(f, 1), f)

get_by_product_id_fails(product_id, f) ==
    /\ ~inTx
    /\ Raising("get_by_product_id", [product_id |-> product_id], BlockFails(f, 1), f)

get_all_fails(limit, offset, f) ==
    /\ ~inTx
    /\ \E n \in 1..StatementsOf("get_all") :
           Raising("get_all", [limit |-> limit, offset |-> offset], BlockFails(f, n), f)

similarity_search_fails(query_embedding, distance_metric, limit, threshold, f) ==
    /\ ~inTx
    /\ distance_func(distance_metric) # "ValueError"
    /\ Raising("similarity_search",
               [query_embedding |-> query_embedding, distance_metric |-> distance_metric,
                limit |-> limit, threshold |-> threshold],
               BlockFails(f, 1), f)

hybrid_search_fails(query_embedding, filter_conditions, distance_metric, limit, f) ==
    /\ distance_func(distance_metric) # "ValueError"
    /\ Raising("hybrid_search",
               [query_embedding |-> query_embedding, filter_conditions |-> filter_conditions,
                distance_metric |-> distance_metric, limit |-> limit],
               ExecuteFails(f), f)

delete_by_id_fails(id, f) ==
    \E o \in DeleteFails(f) : Raising("delete_by_id", [id |-> id], o, f)

delete_by_product_id_fails(product_id, f) ==
    \E o \in DeleteFails(f) : Raising("delete_by_product_id", [product_id |-> product_id], o, f)

count_fails(f) == Raising("count", <<>>, ExecuteFails(f), f)

get_embedding_dimensions_fails(f) == Raising("get_embedding_dimensions", <<>>, ExecuteFails(f), f)

\* Every operation of one session, the store working or failing, on a table
\* of at most MaxId rows.
InitSession ==
    /\ store \in StoreContents({1}, {Title_RedShoes}, {<<1, 0>>})
    /\ inTx = FALSE
    /\ last = NoCall
    /\ prev = NoCall
    /\ pager = NoPager
    /\ logging = LoggingImported
    /\ products = NoProducts
    /\ dep = NoDependency
    /\ cost = NoCost
    /\ settings = NoSettings

NextSession ==
    \/ create(1, Title_RedShoes, Description, Vec(<<1, 0>>))
    \/ \E i \in Ids : get_by_id(i)
    \/ get_by_product_id(1)
    \/ get_all(1, 0)
    \/ similarity_search(Vec(<<1, 0>>), Str_cosine, 1, None)
    \/ hybrid_search(Vec(<<1, 0>>), None, Str_cosine, 1)
    \/ \E i \in Ids : delete_by_id(i)
    \/ delete_by_product_id(1)
    \/ count
    \/ get_embedding_dimensions
    \/ \E i \in Ids, f \in ReadFaults : get_by_id_fails(i, f)
    \/ \E f \in ReadFaults : get_by_product_id_fails(1, f)
    \/ \E f \in ReadFaults : get_all_fails(1, 0, f)
    \/ \E f \in ReadFaults : similarity_search_fails(Vec(<<1, 0>>), Str_cosine, 1, None, f)
    \/ \E f \in ReadFaults : hybrid_search_fails(Vec(<<1, 0>>), None, Str_cosine, 1, f)
    \/ \E i \in Ids, f \in DeleteFaults : delete_by_id_fails(i, f)
    \/ \E f \in DeleteFaults : delete_by_product_id_fails(1, f)
    \/ \E f \in ReadFaults : count_fails(f)
    \/ \E f \in ReadFaults : get_embedding_dimensions_fails(f)

SpecSession == InitSession /\ [][NextSession]_vars

\* The logger: instances made by get_logger and by the constructor, closed,
\* written to, and the decorator at work.
InitLogger ==
    /\ store = {}
    /\ inTx = FALSE
    /\ last = NoCall
    /\ prev = NoCall
    /\ pager = NoPager
    /\ logging = LoggingImported
    /\ products = NoProducts
    /\ dep = NoDependency
    /\ cost = NoCost
    /\ settings = NoSettings

NextLogger ==
    \/ \E p \in CallPatterns : get_logger(p)
    \/ \E d \in LogDirs : SimpleLogger(d)
    \/ \E i \in DOMAIN logging.instances : close(i)
    \/ \E i \in DOMAIN logging.instances : exit_with(i)
    \/ loguru_remove
    \/ \E i \in DOMAIN logging.instances : info(i)
    \/ \E f \in Funcs : wrapper(f)

SpecLogger == InitLogger /\ [][NextLogger]_vars

\* update_stock and update_status in one session, on a product of any stock.
InitStock ==
    /\ store = {}
    /\ inTx = FALSE
    /\ last = NoCall
    /\ prev = NoCall
    /\ pager = NoPager
    /\ logging = LoggingImported
    /\ products \in { ProductsAt(n, st) : n \in 0..MaxStock, st \in {"draft", "active"} }
    /\ dep = NoDependency
    /\ cost = NoCost
    /\ settings = NoSettings

NextStock ==
    \/ \E p \in RepoProductIds, q \in Quantities, r \in BOOLEAN : update_stock_get(1, p, q, r)
    \/ update_stock_finish(1)
    \/ \E p \in RepoProductIds, st \in Statuses : update_status(1, p, st)
    \/ commit(1)
    \/ session_close(1)

SpecStock == InitStock /\ [][NextStock]_vars

\* update_stock calls of two sessions on product 1, each committed by its
\* caller before the session is closed.
NextStockConcurrent ==
    \/ \E s \in Sessions, q \in 1..MaxQuantity, r \in BOOLEAN : update_stock_get(s, 1, q, r)
    \/ \E s \in Sessions : update_stock_finish(s)
    \/ \E s \in Sessions : commit(s)
    \/ \E s \in Sessions : products.sessions[s].pending = None /\ session_close(s)

SpecStockConcurrent == InitStock /\ [][NextStockConcurrent]_vars

\* The requests, each with the session get_session gives it.
InitDependency ==
    /\ store = {}
    /\ inTx = FALSE
    /\ last = NoCall
    /\ prev = NoCall
    /\ pager = NoPager
    /\ logging = LoggingImported
    /\ products = NoProducts
    /\ dep = NoDependency
    /\ cost = NoCost
    /\ settings = NoSettings

NextDependency ==
    \/ \E r \in Requests : get_session(r)
    \/ \E r \in Requests : consumer_executes(r)
    \/ \E r \in Requests, o \in ConsumerOutcomes : consumer_ends(r, o)

SpecDependency == InitDependency /\ [][NextDependency]_vars

\* One CostTrackingCallback and the responses of the model.
InitCost ==
    /\ store = {}
    /\ inTx = FALSE
    /\ last = NoCall
    /\ prev = NoCall
    /\ pager = NoPager
    /\ logging = LoggingImported
    /\ products = NoProducts
    /\ dep = NoDependency
    /\ cost = NoCost
    /\ settings = NoSettings

NextCost ==
    \/ \E response \in Responses : on_llm_end(response)
    \/ get_summary

SpecCost == InitCost /\ [][NextCost]_vars

\* The calls of Settings.
InitSettings ==
    /\ store = {}
    /\ inTx = FALSE
    /\ last = NoCall
    /\ prev = NoCall
    /\ pager = NoPager
    /\ logging = LoggingImported
    /\ products = NoProducts
    /\ dep = NoDependency
    /\ cost = NoCost
    /\ settings = NoSettings

NextSettings ==
    \E init \in SettingsInputs, env_file \in SettingsInputs : Settings(init, env_file)

SpecSettings == InitSettings /\ [][NextSettings]_vars

-----------------------------------------------------------------------------
(* Properties *)

IsSearch(c) == c.op \in {"similarity_search", "hybrid_search"}
Returned(c) == c.err = "none"
RetRows(c) == { c.ret[i][1] : i \in DOMAIN c.ret }
\* the distance of a row to the query of search call c
DistanceTo(c, row) == Distance(distance_func(c.args.distance_metric), row, c.args.query_embedding)

\* C1: the sequence a search returns is in non-decreasing distance order,
\* and each returned pair is a stored row with the distance of that row to
\* the query vector under the metric of the call.
C1_RankingOrder ==
    (IsSearch(last) /\ Returned(last)) =>
        /\ \A i \in 1..(Len(last.ret) - 1) : last.ret[i][2] <= last.ret[i + 1][2]
        /\ \A i \in DOMAIN last.ret :
              /\ last.ret[i][1] \in store
              /\ last.ret[i][2] = DistanceTo(last, last.ret[i][1])

\* C1 witness: a similarity_search returned two rows of different distances.
C1_Witness ==
    /\ last.op = "similarity_search" /\ Returned(last)
    /\ Len(last.ret) >= 2
    /\ last.ret[1][2] < last.ret[2][2]

\* C2: with a threshold, similarity_search returns the first `limit` rows, in
\* ascending distance order, of the rows within the threshold: every returned
\* row is within it, no row is returned twice, the length is the smaller of
\* limit and the number of rows within it, and no row within it that is left
\* out is nearer than a returned one.
C2_ThresholdBeforeLimit ==
    (last.op = "similarity_search" /\ Returned(last) /\ last.args.threshold # None) =>
        LET within == { r \in store : DistanceTo(last, r) <= last.args.threshold[1] } IN
        /\ RetRows(last) \subseteq within
        /\ \A i, j \in DOMAIN last.ret : last.ret[i][1] = last.ret[j][1] => i = j
        /\ Len(last.ret) = Min(last.args.limit, Cardinality(within))
        /\ \A i \in 1..(Len(last.ret) - 1) : last.ret[i][2] <= last.ret[i + 1][2]
        /\ \A r \in within \ RetRows(last) :
              \A i \in DOMAIN last.ret : last.ret[i][2] <= DistanceTo(last, r)

\* C2 witness: a threshold kept a stored row out and the result, not empty,
\* below the limit.
C2_Witness ==
    /\ last.op = "similarity_search" /\ Returned(last) /\ last.args.threshold # None
    /\ 1 <= Len(last.ret) /\ Len(last.ret) < last.args.limit
    /\ \E r \in store : DistanceTo(last, r) > last.args.threshold[1]

SameQuery(c, d) ==
    /\ c.op = "similarity_search" /\ Returned(c)
    /\ d.op = "similarity_search" /\ Returned(d)
    /\ c.args.query_embedding = d.args.query_embedding
    /\ c.args.distance_metric = d.args.distance_metric
    /\ c.args.limit = d.args.limit
    /\ c.args.threshold # None /\ d.args.threshold # None

\* C3: of two similarity_search calls on the same table content that differ
\* in the threshold alone, the one with the smaller threshold returns a
\* subset of the rows of the other.
C3_ThresholdMonotone ==
    [][(SameQuery(last, last') /\ store' = store) =>
          /\ last.args.threshold[1] <= last'.args.threshold[1] => RetRows(last) \subseteq RetRows(last')
          /\ last'.args.threshold[1] <= last.args.threshold[1] => RetRows(last') \subseteq RetRows(last)]_vars

\* C4: a search returns at most `limit` results.
C4_LimitBound ==
    (IsSearch(last) /\ Returned(last)) => Len(last.ret) <= last.args.limit

\* C4 witness: a hybrid_search cut its result at the limit.
C4_Witness ==
    /\ last.op = "hybrid_search" /\ Returned(last)
    /\ last.args.limit >= 1
    /\ Len(last.ret) = last.args.limit
    /\ Cardinality(store) > last.args.limit

\* C8: a search called with the metric name "manhattan" raises the
\* unsupported-metric error (ValueError), and a search that raises it has
\* executed no statement and begun no transaction.
C8_UnsupportedMetricBeforeStore ==
    IsSearch(last) =>
        /\ last.args.distance_metric = Str_manhattan => last.err = "ValueError"
        /\ last.err = "ValueError" => (last.stmts = 0 /\ ~last.began)

\* C8 witness: similarity_search with "manhattan" raised.
C8_Witness ==
    /\ last.op = "similarity_search"
    /\ last.args.distance_metric = Str_manhattan
    /\ last.err = "ValueError"

\* C9 as claimed: the searches accept exactly the names cosine and
\* euclidean, and reject every other name with the unsupported-metric error.
C9_AcceptsCosineEuclidean ==
    IsSearch(last) =>
        IF last.args.distance_metric \in {Str_cosine, Str_euclidean}
        THEN last.err # "ValueError"
        ELSE last.err = "ValueError"

\* C9 amended: the searches accept exactly the names that are "cosine" or
\* "l2" once lower-cased, "cosine" selecting the cosine distance and "l2"
\* the Euclidean (L2) distance, and reject every other name, "euclidean"
\* included, with the unsupported-metric error (ValueError).
C9_AcceptsCosineL2 ==
    IsSearch(last) =>
        LET name == lower(last.args.distance_metric)
            q == last.args.query_embedding.head
        IN  /\ name = Str_cosine =>
                /\ last.err # "ValueError"
                /\ Returned(last) => \A i \in DOMAIN last.ret :
                      last.ret[i][2] = CosineDistance[last.ret[i][1].embedding.head, q]
            /\ name = Str_l2 =>
                /\ last.err # "ValueError"
                /\ Returned(last) => \A i \in DOMAIN last.ret :
                      last.ret[i][2] = L2Distance[last.ret[i][1].embedding.head, q]
            /\ name \notin {Str_cosine, Str_l2} => last.err = "ValueError"

\* C9 witness: the name "L2" selected the Euclidean distance, which differs
\* from the cosine distance of the returned row.
C9_Witness ==
    /\ last.op = "similarity_search" /\ Returned(last)
    /\ last.args.distance_metric = Str_L2
    /\ Len(last.ret) >= 1
    /\ last.ret[1][2] = L2Distance[last.ret[1][1].embedding.head, last.args.query_embedding.head]
    /\ last.ret[1][2] # CosineDistance[last.ret[1][1].embedding.head, last.args.query_embedding.head]

\* C5: delete_by_id returns, without raising, whether a row with the id
\* existed, and a second delete_by_id of the same id right after it returns
\* false; delete_by_product_id of a product id no row has returns false
\* without raising.
C5_DeleteIdempotent ==
    [][/\ last'.op = "delete_by_id" =>
            /\ last'.err = "none"
            /\ last'.ret = (\E r \in store : r.id = last'.args.id)
            /\ (last.op = "delete_by_id" /\ last.args.id = last'.args.id) => last'.ret = FALSE
       /\ last'.op = "delete_by_product_id" =>
            /\ last'.err = "none"
            /\ (\A r \in store : r.product_id # last'.args.product_id) => last'.ret = FALSE]_vars

\* C5 witness: delete_by_id returned true and, called again with the same
\* id, false.
C5_Witness ==
    /\ prev.op = "delete_by_id" /\ prev.ret = TRUE
    /\ last.op = "delete_by_id" /\ last.args.id = prev.args.id
    /\ last.err = "none" /\ last.ret = FALSE

\* C6: delete_by_product_id removes exactly the rows with the product id and
\* returns whether there were any; with none, it returns false and leaves
\* the rows, and their count, as they were.
C6_DeleteByProductIdFrame ==
    [][last'.op = "delete_by_product_id" =>
          LET matched == { r \in store : r.product_id = last'.args.product_id } IN
          /\ last'.err = "none"
          /\ store' = store \ matched
          /\ last'.ret = (matched # {})
          /\ matched = {} => (store' = store /\ Cardinality(store') = Cardinality(store))]_vars

\* C6 witness: delete_by_product_id removed the rows of one product and left
\* a row of another.
C6_Witness ==
    /\ last.op = "delete_by_product_id" /\ last.ret = TRUE
    /\ store # {}
    /\ \A r \in store : r.product_id # last.args.product_id

\* C7 as claimed: create with an embedding of another length than the
\* configured dimension raises ValidationError, and a create that returns has
\* inserted a row whose embedding has the configured dimension.
C7_DimensionValidated ==
    last.op = "create" =>
        /\ last.args.embedding.dim # EMBEDDING_DIM => last.err = "ValidationError"
        /\ Returned(last) => (last.ret \in store /\ last.ret.embedding.dim = EMBEDDING_DIM)

\* C10 as claimed: get_by_product_id never raises; it returns a row with the
\* product id when one exists and None when none does.
C10_LookupNeverRaises ==
    last.op = "get_by_product_id" =>
        /\ last.err = "none"
        /\ (\E r \in store : r.product_id = last.args.product_id) =>
              (last.ret # None /\ last.ret[1] \in store
               /\ last.ret[1].product_id = last.args.product_id)
        /\ (\A r \in store : r.product_id # last.args.product_id) => last.ret = None

RecognizedKeys == {"title_contains", "product_id", "id"}

\* a filter mapping without the keys hybrid_search does not recognize
Stripped(filter_conditions) ==
    IF filter_conditions = None THEN None
    ELSE Some([k \in DOMAIN filter_conditions[1] \cap RecognizedKeys |-> filter_conditions[1][k]])

\* sub occurs in s, letter case aside
Contains(s, sub) ==
    \E i \in 1..(Len(s) - Len(sub) + 1) : SubSeq(lower(s), i, i + Len(sub) - 1) = lower(sub)

C12_ReturnedRowsMeetFilters ==
    (last.op = "hybrid_search" /\ Returned(last) /\ last.args.filter_conditions # None) =>
        LET d == last.args.filter_conditions[1] IN
        \A r \in RetRows(last) :
            /\ "title_contains" \in DOMAIN d => Contains(r.title, d["title_contains"])
            /\ "product_id" \in DOMAIN d => r.product_id = d["product_id"]
            /\ "id" \in DOMAIN d => r.id = d["id"]

\* C14: what get_all returns is a page and a total, the total being the
\* number of rows of the table whatever the limit and the offset, and the
\* page being empty when the limit is 0.
C14_TotalCountIsFullCount ==
    (last.op = "get_all" /\ Returned(last)) =>
        /\ last.ret[2] = Cardinality(store)
        /\ last.args.limit = 0 => last.ret[1] = <<>>
        /\ Len(last.ret[1]) <= last.args.limit
        /\ \A i \in DOMAIN last.ret[1] : last.ret[1][i] \in store

\* C14 witness: get_all with limit 0 returned the empty page and the total 2.
C14_Witness ==
    /\ last.op = "get_all" /\ Returned(last)
    /\ last.args.limit = 0
    /\ last.ret = <<<<>>, 2>>

\* C15 as claimed: get_all with a negative limit or a negative offset raises
\* ValidationError before any statement is sent to the store.
C15_NegativePagingRejected ==
    (last.op = "get_all" /\ (last.args.limit < 0 \/ last.args.offset < 0)) =>
        /\ last.err = "ValidationError"
        /\ last.stmts = 0

\* C16: when delete_by_id or delete_by_product_id returns a boolean, its one
\* DELETE statement has been executed and the transaction that held it is
\* committed: the session has no transaction begun, and the table has no row
\* that meets the criterion of the call.
C16_DeleteCommitsBeforeReturn ==
    (IsDelete(last) /\ Returned(last)) =>
        /\ last.ret \in BOOLEAN
        /\ last.stmts = 1
        /\ ~inTx
        /\ last.op = "delete_by_id" => ~(\E r \in store : r.id = last.args.id)
        /\ last.op = "delete_by_product_id" =>
              ~(\E r \in store : r.product_id = last.args.product_id)

\* C16 witness: a delete that ran in a transaction an earlier call had left
\* begun removed a row and returned True, and no transaction is begun.
C16_Witness ==
    /\ IsDelete(last) /\ Returned(last)
    /\ last.ret = TRUE
    /\ ~last.began
    /\ ~inTx

\* C17 as claimed: create with an embedding of EMBEDDING_DIM numbers returns
\* and has then made one durable write: no transaction is left begun, the
\* table has one row more than before the call, and the returned record is a
\* row of the table carrying the product id of the call, so that count and
\* the lookups on the same session see it.
C17_CreateIsOneDurableWrite ==
    [][(last'.op = "create" /\ last'.args.embedding.dim = EMBEDDING_DIM) =>
          /\ last'.err = "none"
          /\ ~inTx'
          /\ Cardinality(store') = Cardinality(store) + 1
          /\ last'.ret \in store'
          /\ last'.ret.product_id = last'.args.product_id]_vars

\* C18 as claimed: two consecutive runs of the same search on the same table
\* content return the same sequence.
C18_DeterministicTieBreak ==
    [][(/\ IsSearch(last) /\ Returned(last)
        /\ IsSearch(last') /\ Returned(last')
        /\ last'.op = last.op
        /\ last'.args = last.args
        /\ store' = store) => last'.ret = last.ret]_vars

\* C20 as claimed: no call fails on the transaction state an earlier call of
\* the session left behind: session.begin() never finds a transaction begun.
C20_OperationsIndependent ==
    last.err # "InvalidRequestError"

RECURSIVE Concat(_)
\* the pages one after the other
Concat(pages) == IF pages = <<>> THEN <<>> ELSE Head(pages) \o Concat(Tail(pages))

\* C13 as claimed: when a caller has paged through get_all to the empty page,
\* the sizes of the pages add up to the total each page reported, and every
\* row of the table is on exactly one page.
C13_PagingConsistent ==
    (pager.done /\ last.op = "get_all" /\ Returned(last)) =>
        LET all == Concat(pager.pages) IN
        /\ \A i \in DOMAIN pager.totals : pager.totals[i] = Len(all)
        /\ \A r \in store : Cardinality({ i \in DOMAIN all : all[i] = r }) = 1

\* C19: a call during which the store raised ends by raising that same
\* failure: it returns no value, and it has sent no more statements than the
\* operation sends when the store works (nothing is sent again).
C19_StoreFailuresPropagate ==
    last.fault # "none" =>
        /\ last.err = last.fault
        /\ last.ret = None
        /\ last.stmts <= StatementsOf(last.op)

\* C19 witness: the store refused the DELETE of delete_by_id with a
\* constraint violation, the call raised it, and the row is still there.
C19_Witness ==
    /\ last.op = "delete_by_id"
    /\ last.fault = "IntegrityError"
    /\ last.err = "IntegrityError"
    /\ \E r \in store : r.id = last.args.id

\* C21 as claimed: two calls of get_logger whose log_dir is the same got the
\* same instance: the patterns cached for one log_dir hold one instance.
C21_OneInstancePerLogDir ==
    \A p \in CallPatterns, q \in CallPatterns :
        (logging.cache[p] # 0 /\ logging.cache[q] # 0 /\ p.log_dir = q.log_dir) =>
            logging.cache[p] = logging.cache[q]

IsClose(c) == c.op \in {"close", "__exit__"}

\* C22: close, called directly or on leaving the with block, does not raise,
\* leaves the instance without handler ids and loguru without any handler
\* whose id the instance held, and removes no other handler; on an instance
\* that holds no id (a second close) it changes nothing.
C22_CloseReleasesHandlers ==
    [][IsClose(logging'.call) =>
          LET i == logging'.call.self
              ids == Range(logging.instances[i]._handler_ids)
          IN  /\ logging'.call.err = "none"
              /\ logging'.instances[i]._handler_ids = <<>>
              /\ DOMAIN logging'.handlers = DOMAIN logging.handlers \ ids
              /\ ids = {} => logging'.handlers = logging.handlers
              /\ \A j \in DOMAIN logging.instances :
                    j # i => logging'.instances[j] = logging.instances[j]]_vars

\* C22 witness: close returned on an instance whose three handlers somebody
\* else had removed before, while another instance's handlers are registered.
C22_Witness ==
    /\ IsClose(logging.call)
    /\ logging.call.err = "none"
    /\ Len(logging.call.held) = 3
    /\ logging.instances[logging.call.self]._handler_ids = <<>>
    /\ DOMAIN logging.handlers # {}
    /\ DOMAIN logging.handlers \cap Range(logging.call.held) = {}

\* the instances that are constructed and not closed
Open(i) == logging.instances[i]._handler_ids # <<>>

\* C23 as claimed: while two instances of different directories are both
\* constructed and not closed, a message logged through either reaches the
\* files of both directories.
C23_BothInstancesFunctional ==
    logging.call.op = "info" =>
        \A i \in DOMAIN logging.instances, j \in DOMAIN logging.instances :
            (Open(i) /\ Open(j) /\ logging.instances[i].log_dir # logging.instances[j].log_dir) =>
                {logging.instances[i].log_dir, logging.instances[j].log_dir}
                    \subseteq logging.call.delivered

\* the place of the first entry e in trace t, 0 when there is none
Pos(e, t) == IF e \in Range(t) THEN CHOOSE i \in DOMAIN t : t[i] = e /\ \A j \in 1..(i - 1) : t[j] # e
             ELSE 0

\* C24 as claimed: the caller of a wrapped function gets the value the
\* function returns; when the function raises, one failure entry is logged
\* and the caller gets that exception; the start entry precedes the run of
\* the function, and a completion entry is logged only after the function
\* has run and returned.
C24_WrapperTransparent ==
    logging.call.op = "wrapper" =>
        LET f == logging.call.func[1]
            t == logging.call.trace
        IN  /\ f.body = "return" => (logging.call.ret = Some(ReturnValue) /\ logging.call.err = "none")
            /\ f.body # "return" =>
                  /\ logging.call.err = f.body
                  /\ Cardinality({ k \in DOMAIN t : t[k] = "failed" }) = 1
            /\ 0 < Pos("start", t) /\ Pos("start", t) < Pos("run", t)
            /\ "done" \in Range(t) => (f.body = "return" /\ Pos("run", t) < Pos("done", t))

\* the session of SpecStock
TheSession == products.sessions[1]

\* an update_stock call of the session has just returned
StockReturned(se) == se.pc = "idle" /\ se.args # <<>> /\ se.ret # None

\* C25: stock is never negative, in the table, in what a session has written
\* and in the Product a session holds.  When update_stock returns: for a
\* missing product, or a result below 0, it returns False and the product is
\* as it was before the call; otherwise it returns True and the stock is the
\* stock before the call less quantity (reduce) or plus quantity.
C25_StockNeverNegative ==
    /\ products.rows[1].stock >= 0
    /\ TheSession.identity # None => TheSession.identity[1].stock >= 0
    /\ TheSession.pending # None => TheSession.pending[1].stock >= 0
    /\ StockReturned(TheSession) =>
          LET a == TheSession.args
              b == TheSession.before
              n == IF a.reduce THEN b[1].stock - a.quantity ELSE b[1].stock + a.quantity
          IN  IF b = None \/ (b # None /\ n < 0)
              THEN /\ TheSession.ret = Some(FALSE)
                   /\ TheSession.product = b
                   /\ TheSession.identity = b \/ a.product_id \notin DOMAIN products.rows
              ELSE /\ TheSession.ret = Some(TRUE)
                   /\ TheSession.product[1].stock = n
                   /\ TheSession.identity = TheSession.product
                   /\ RowSeen(1, a.product_id).stock = n

\* C25 witness: a call that would have taken the stock below 0 returned
\* False on a product that has stock.
C25_Witness ==
    /\ StockReturned(TheSession)
    /\ TheSession.ret = Some(FALSE)
    /\ TheSession.before # None
    /\ TheSession.product[1].stock > 0
    /\ TheSession.args.reduce
    /\ TheSession.args.quantity > TheSession.product[1].stock

\* an update_stock call of the session has just returned True
StockUpdated(se) == StockReturned(se) /\ se.ret = Some(TRUE)

\* C26 as claimed: after a successful call a stock of 0 goes with status
\* out_of_stock; a product that was out_of_stock and to which stock was
\* added, up to a positive stock, is a draft; in every other case the status
\* is the one before the call.
C26_DraftOnlyWhenRestocked ==
    StockUpdated(TheSession) =>
        LET b == TheSession.before[1]
            p == TheSession.product[1]
            restocked == b.status = "out_of_stock" /\ p.stock > b.stock /\ p.stock > 0
        IN  /\ p.stock = 0 => p.status = "out_of_stock"
            /\ restocked => p.status = "draft"
            /\ (p.stock # 0 /\ ~restocked) => p.status = b.status

\* C26: after a successful call a stock of 0 goes with status out_of_stock;
\* a product that was out_of_stock and whose stock after the call is
\* positive is a draft, whether the call added stock or not; in every other
\* case the status is the one before the call.
C26_StatusTransitions ==
    StockUpdated(TheSession) =>
        LET b == TheSession.before[1]
            p == TheSession.product[1]
        IN  /\ p.stock = 0 => p.status = "out_of_stock"
            /\ (b.status = "out_of_stock" /\ p.stock > 0) => p.status = "draft"
            /\ (p.stock # 0 /\ b.status # "out_of_stock") => p.status = b.status

\* C26 witness: a product without stock and out_of_stock got stock and is a
\* draft.
C26_Witness ==
    /\ StockUpdated(TheSession)
    /\ TheSession.before[1] = [stock |-> 0, status |-> "out_of_stock"]
    /\ TheSession.product[1].stock > 0
    /\ TheSession.product[1].status = "draft"

\* C27 as claimed: whenever the calls of the two sessions have returned and
\* their callers have committed, the stock in the table is the stock at the
\* start plus the quantities added and less the quantities reduced by the
\* calls that returned True, and it is not below 0.
C27_NoLostUpdate ==
    (\A s \in Sessions : products.sessions[s].pc = "idle" /\ products.sessions[s].pending = None) =>
        /\ products.rows[1].stock = products.initial + products.delta
        /\ products.rows[1].stock >= 0

\* the number of times event e is in trace t
Times(e, t) == Cardinality({ k \in DOMAIN t : t[k] = e })

\* C28 as claimed: when the generator of a request has run to its end,
\* close and then remove have run, once each, and the registry no longer
\* holds the session of the task; when the consumer raised, rollback ran
\* before close and the generator raised what the consumer raised; commit
\* never ran.
C28_SessionReleased ==
    \A r \in Requests :
        dep.requests[r].pc = "done" =>
            LET q == dep.requests[r]
                t == q.trace
            IN  /\ Times("close", t) = 1
                /\ Times("remove", t) = 1
                /\ Pos("close", t) < Pos("remove", t)
                /\ r \notin dep.registry
                /\ q.outcome # "none" =>
                      /\ Times("rollback", t) = 1
                      /\ Pos("rollback", t) < Pos("close", t)
                /\ q.raised = q.outcome
                /\ Times("commit", t) = 0

\* the sum of field key over the records
RECURSIVE SumOf(_, _)
SumOf(records, key) ==
    IF records = <<>> THEN 0 ELSE records[1][key] + SumOf(Tail(records), key)

\* the calls of on_llm_end whose response carried usage metadata
WithUsage(responses) ==
    { k \in DOMAIN responses : responses[k].usage_metadata # None }

\* C29 as claimed: after any calls of on_llm_end, none of which raised, the
\* totals are the sums over call_records, get_summary reports their sum and
\* the number of records, and there is one record for each call whose
\* response carried usage metadata.
C29_CostAccounting ==
    /\ cost.raised = "none"
    /\ cost.total_input_tokens = SumOf(cost.call_records, "input_tokens")
    /\ cost.total_output_tokens = SumOf(cost.call_records, "output_tokens")
    /\ Summary(cost).total_tokens = cost.total_input_tokens + cost.total_output_tokens
    /\ Summary(cost).call_count = Len(cost.call_records)
    /\ cost.summary # None => cost.summary[1] = Summary(cost)
    /\ Len(cost.call_records) = Cardinality(WithUsage(cost.responses))

=============================================================================
